---- MODULE Spec2Model ----
(***************************************************************************)
(* A model of srttools.py: the Timestamp value type (from_str, __str__,    *)
(* delayed_by), the SRT parser parse_srt_file (a three-state machine over  *)
(* the lines of a file) and the delay transform delay_subtitles.           *)
(*                                                                         *)
(* Text is modelled character by character: a Python str is a sequence of  *)
(* one-character strings, a file is a sequence of lines, each line keeping *)
(* its "\n" terminator as `for line in file` yields it.  None is the empty *)
(* tuple <<>> and a present value v is <<v>>.  A call that may raise       *)
(* returns a record whose field exc names the exception ("" for a normal   *)
(* return) and whose field ret holds the returned value.                   *)
(***************************************************************************)
EXTENDS Integers, Sequences, FiniteSets, TLC

VARIABLES
    \* parse_srt_file: the argument, the loop position and the locals
    file, pos, state, subtitles, number, start, end, text,
    \* parse_srt_file: where the call is, what it raised, what it returned
    ppc, perr, parsed,
    \* the caller: the list it holds, and how many delay calls it made
    cur, ncalls,
    \* delay_subtitles: the arguments and the outcome of the last call
    d_in, d_millis, d_res,
    \* a single Timestamp and the last method applied to it
    t_self, t_text, t_arg, t_res, t_op, t_out,
    \* the command: the output file, None until it is opened
    outfile,
    \* delay_subtitles with the text lists held by reference: the list
    \* objects, the argument, the result, and where the caller is
    heap, r_in, r_out, r_pc,
    \* how the file was put together (read by the properties only)
    blocks, tail

parserVars == <<file, pos, state, subtitles, number, start, end, text, ppc, perr, parsed>>
callerVars == <<cur, ncalls>>
delayVars == <<d_in, d_millis, d_res>>
tsVars == <<t_self, t_text, t_arg, t_res, t_op, t_out>>
mainVars == <<outfile>>
refVars == <<heap, r_in, r_out, r_pc>>
ghostVars == <<blocks, tail>>
vars == <<parserVars, callerVars, delayVars, tsVars, ghostVars, mainVars, refVars>>

None == <<>>
Some(v) == <<v>>

Max(a, b) == IF a >= b THEN a ELSE b

(***************************************************************************)
(* Python str helpers                                                      *)
(***************************************************************************)
Digits == <<"0", "1", "2", "3", "4", "5", "6", "7", "8", "9">>

AsciiDigit == {Digits[i] : i \in 1..10}

\* U+00B2 SUPERSCRIPT TWO: str.isdigit() accepts it, int() does not.
Sup2 == "sup2"

\* The whitespace str.strip() removes, as far as the sample lines use it.
Whitespace == {" ", "\t", "\r", "\n"}

DigitVal(c) == (CHOOSE i \in 1..10 : Digits[i] = c) - 1

RECURSIVE lstrip(_)
lstrip(s) ==
    IF s # <<>> /\ s[1] \in Whitespace THEN lstrip(Tail(s)) ELSE s

RECURSIVE rstrip(_)
rstrip(s) ==
    IF s # <<>> /\ s[Len(s)] \in Whitespace
    THEN rstrip(SubSeq(s, 1, Len(s) - 1))
    ELSE s

\* As strip, only the line terminator removed.
strip_newline_only(s) ==
    IF s # <<>> /\ s[Len(s)] = "\n" THEN SubSeq(s, 1, Len(s) - 1) ELSE s

strip(s) == rstrip(lstrip(s))

isdigit(s) == Len(s) > 0 /\ \A i \in 1..Len(s) : s[i] \in AsciiDigit \cup {Sup2}

RECURSIVE DecimalValue(_)
DecimalValue(s) ==
    IF s = <<>> THEN 0
    ELSE 10 * DecimalValue(SubSeq(s, 1, Len(s) - 1)) + DigitVal(s[Len(s)])

\* int(s) for a str s without sign, blanks or underscores
int(s) ==
    IF Len(s) > 0 /\ \A i \in 1..Len(s) : s[i] \in AsciiDigit
    THEN [exc |-> "", ret |-> Some(DecimalValue(s))]
    ELSE [exc |-> "ValueError", ret |-> None]

RECURSIVE NatStr(_)
NatStr(n) ==
    IF n < 10 THEN <<Digits[n + 1]>>
    ELSE NatStr(n \div 10) \o <<Digits[(n % 10) + 1]>>

\* str(n) for an int n
IntStr(n) == IF n < 0 THEN <<"-">> \o NatStr(-n) ELSE NatStr(n)

RECURSIVE Zeros(_)
Zeros(k) == IF k <= 0 THEN <<>> ELSE <<"0">> \o Zeros(k - 1)

\* As zfill, nothing padded.
zfill_none(s, width) == s

zfill(s, width) ==
    IF Len(s) >= width THEN s
    ELSE IF s # <<>> /\ s[1] \in {"+", "-"}
         THEN <<s[1]>> \o Zeros(width - Len(s)) \o Tail(s)
         ELSE Zeros(width - Len(s)) \o s

Arrow == <<"-", "-", ">">>

\* The first index at which sep occurs in s, 0 when it does not occur.
Find(s, sep) ==
    LET hits == {i \in 1..(Len(s) - Len(sep) + 1) : SubSeq(s, i, i + Len(sep) - 1) = sep}
    IN IF hits = {} THEN 0 ELSE CHOOSE i \in hits : \A j \in hits : i <= j

RECURSIVE split(_, _)
split(s, sep) ==
    LET i == Find(s, sep)
    IN IF i = 0 THEN <<s>>
       ELSE <<SubSeq(s, 1, i - 1)>> \o split(SubSeq(s, i + Len(sep), Len(s)), sep)

(***************************************************************************)
(* class Timestamp                                                         *)
(***************************************************************************)
Timestamp(millis) == [millis |-> millis]

\* As HoursGroup, the pattern written ([0-2]?[0-9]): it lets 24..29 through.
HoursGroup_loose(g) ==
    /\ Len(g) \in {1, 2}
    /\ g[Len(g)] \in AsciiDigit
    /\ Len(g) = 2 => g[1] \in {"0", "1", "2"}

\* ([01]?[0-9]|2[0-3])
HoursGroup(g) ==
    \/ /\ Len(g) \in {1, 2}
       /\ g[Len(g)] \in AsciiDigit
       /\ Len(g) = 2 => g[1] \in {"0", "1"}
    \/ /\ Len(g) = 2
       /\ g[1] = "2"
       /\ g[2] \in {"0", "1", "2", "3"}

\* ([0-5]?[0-9])
SixtyGroup(g) ==
    /\ Len(g) \in {1, 2}
    /\ g[Len(g)] \in AsciiDigit
    /\ Len(g) = 2 => g[1] \in {"0", "1", "2", "3", "4", "5"}

\* ([0-9]{1,3})
MillisGroup(g) ==
    /\ Len(g) \in {1, 2, 3}
    /\ \A i \in 1..Len(g) : g[i] \in AsciiDigit

\* re.fullmatch of the timestamp pattern: the set of group tuples of the
\* ways s splits as hours ":" minutes ":" seconds "," millis.
fullmatch(s) ==
    LET colons == {i \in 1..Len(s) : s[i] = ":"}
        commas == {i \in 1..Len(s) : s[i] = ","}
    IN {<<SubSeq(s, 1, p[1] - 1), SubSeq(s, p[1] + 1, p[2] - 1),
          SubSeq(s, p[2] + 1, p[3] - 1), SubSeq(s, p[3] + 1, Len(s))>> :
           p \in {q \in colons \X colons \X commas :
                    /\ q[1] < q[2]
                    /\ q[2] < q[3]
                    /\ HoursGroup(SubSeq(s, 1, q[1] - 1))
                    /\ SixtyGroup(SubSeq(s, q[1] + 1, q[2] - 1))
                    /\ SixtyGroup(SubSeq(s, q[2] + 1, q[3] - 1))
                    /\ MillisGroup(SubSeq(s, q[3] + 1, Len(s)))}}

from_str(timestamp_str) ==
    LET found == fullmatch(timestamp_str)
    IN IF found = {}
       THEN [exc |-> "ValueError", ret |-> None]
       ELSE LET matches == CHOOSE m \in found : TRUE
                hours == int(matches[1]).ret[1]
                minutes == int(matches[2]).ret[1]
                seconds == int(matches[3]).ret[1]
                millis == int(matches[4]).ret[1]
                total_millis ==
                    millis + 1000 * seconds + 60 * 1000 * minutes
                        + 60 * 60 * 1000 * hours
            IN [exc |-> "", ret |-> Some(Timestamp(total_millis))]

Timestamp_str(self) ==
    LET hours == self.millis \div (60 * 60 * 1000)
        rest1 == self.millis % (60 * 60 * 1000)
        minutes == rest1 \div (60 * 1000)
        rest2 == rest1 % (60 * 1000)
        seconds == rest2 \div 1000
        millis == rest2 % 1000
    IN zfill(IntStr(hours), 2) \o <<":">> \o zfill(IntStr(minutes), 2) \o <<":">>
           \o zfill(IntStr(seconds), 2) \o <<",">> \o zfill(IntStr(millis), 3)

\* As delayed_by, the test written `<= 0`: a result of exactly 0 raises.
delayed_by_rejects_zero(self, millis, clamp_to_zero) ==
    IF self.millis + millis <= 0 /\ ~clamp_to_zero
    THEN [exc |-> "NegativeTimestampException", ret |-> None, self |-> self]
    ELSE [exc |-> "", ret |-> <<[millis |-> Max(self.millis + millis, 0)]>>, self |-> self]

\* As delayed_by, the max(..., 0) left out: a clamped result stays negative.
delayed_by_no_max(self, millis, clamp_to_zero) ==
    IF self.millis + millis < 0 /\ ~clamp_to_zero
    THEN [exc |-> "NegativeTimestampException", ret |-> None, self |-> self]
    ELSE [exc |-> "", ret |-> <<[millis |-> self.millis + millis]>>, self |-> self]

\* The field self of the result is the receiver as the call leaves it.
delayed_by(self, millis, clamp_to_zero) ==
    IF self.millis + millis < 0 /\ ~clamp_to_zero
    THEN [exc |-> "NegativeTimestampException", ret |-> None, self |-> self]
    ELSE [exc |-> "", ret |-> Some(Timestamp(Max(self.millis + millis, 0))), self |-> self]

(***************************************************************************)
(* Sample lines of input files, spelled out character by character (the   *)
(* comment above each gives the line as text, without its terminator).    *)
(***************************************************************************)
\* '5'
L_5 == <<"5">>

\* ' 9'
L_9 == <<" ", "9">>

\* '012'
L_012 == <<"0", "1", "2">>

\* '3'
L_3 == <<"3">>

\* '1'
L_1 == <<"1">>

\* '4'
L_4 == <<"4">>

\* '1a'
L_1a == <<"1", "a">>

\* '-1'
L_minus1 == <<"-", "1">>

\* 'Hello'
L_Hello == <<"H", "e", "l", "l", "o">>

\* 'Hi'
L_Hi == <<"H", "i">>

\* '  there '
L_there_padded == <<" ", " ", "t", "h", "e", "r", "e", " ">>

\* 'there'
L_there == <<"t", "h", "e", "r", "e">>

\* '7'
L_7 == <<"7">>

\* 'x'
L_x == <<"x">>

\* ''
L_blank == <<>>

\* ' \t'
L_ws == <<" ", "\t">>

\* '00:00:00,000 --> 00:00:00,500'
L_ts_0_500 ==
    <<
      "0", "0", ":", "0", "0", ":", "0", "0", ",", "0", "0", "0",
      " ", "-", "-", ">", " ", "0", "0", ":", "0", "0", ":", "0",
      "0", ",", "5", "0", "0"
    >>

\* '0:0:1,0 --> 0:0:2,5'
L_ts_short ==
    <<
      "0", ":", "0", ":", "1", ",", "0", " ", "-", "-", ">", " ",
      "0", ":", "0", ":", "2", ",", "5"
    >>

\* '23:59:59,999-->00:00:05,000'
L_ts_tight ==
    <<
      "2", "3", ":", "5", "9", ":", "5", "9", ",", "9", "9", "9",
      "-", "-", ">", "0", "0", ":", "0", "0", ":", "0", "5", ",",
      "0", "0", "0"
    >>

\* '00:00:01,000 --> 00:00:02,000'
L_ts_ok ==
    <<
      "0", "0", ":", "0", "0", ":", "0", "1", ",", "0", "0", "0",
      " ", "-", "-", ">", " ", "0", "0", ":", "0", "0", ":", "0",
      "2", ",", "0", "0", "0"
    >>

\* '00:00:01,000 -> 00:00:02,000'
L_ts_sep1 ==
    <<
      "0", "0", ":", "0", "0", ":", "0", "1", ",", "0", "0", "0",
      " ", "-", ">", " ", "0", "0", ":", "0", "0", ":", "0", "2",
      ",", "0", "0", "0"
    >>

\* '00:00:01,000 --> 00:00:02,000 --> 00:00:03,000'
L_ts_sep3 ==
    <<
      "0", "0", ":", "0", "0", ":", "0", "1", ",", "0", "0", "0",
      " ", "-", "-", ">", " ", "0", "0", ":", "0", "0", ":", "0",
      "2", ",", "0", "0", "0", " ", "-", "-", ">", " ", "0", "0",
      ":", "0", "0", ":", "0", "3", ",", "0", "0", "0"
    >>

\* '24:00:00,000 --> 00:00:02,000'
L_ts_hour ==
    <<
      "2", "4", ":", "0", "0", ":", "0", "0", ",", "0", "0", "0",
      " ", "-", "-", ">", " ", "0", "0", ":", "0", "0", ":", "0",
      "2", ",", "0", "0", "0"
    >>

\* '00:60:00,000 --> 00:00:02,000'
L_ts_minute ==
    <<
      "0", "0", ":", "6", "0", ":", "0", "0", ",", "0", "0", "0",
      " ", "-", "-", ">", " ", "0", "0", ":", "0", "0", ":", "0",
      "2", ",", "0", "0", "0"
    >>

\* '00:00:01,000 --> 00:00:60,000'
L_ts_second ==
    <<
      "0", "0", ":", "0", "0", ":", "0", "1", ",", "0", "0", "0",
      " ", "-", "-", ">", " ", "0", "0", ":", "0", "0", ":", "6",
      "0", ",", "0", "0", "0"
    >>

(***************************************************************************)
(* class Subtitle                                                          *)
(***************************************************************************)
\* As Subtitle, start and end taken in the wrong order.
Subtitle_swapped(n, s, e, t) == [number |-> n, start |-> e, end |-> s, text |-> t]

Subtitle(n, s, e, t) == [number |-> n, start |-> s, end |-> e, text |-> t]

(***************************************************************************)
(* parse_srt_file: one action per turn of `for line in file`, by the state *)
(* the line is read in, and one for the code after the loop.               *)
(***************************************************************************)
\* As Reset, the text buffer not renewed.
Reset_keeps_text == [number |-> None, start |-> None, end |-> None, text |-> text]

\* number, start, end, text = None, None, None, []
Reset == [number |-> None, start |-> None, end |-> None, text |-> <<>>]

ParseNewSubtitle ==
    /\ ppc = "loop"
    /\ pos < Len(file)
    /\ state = "NEW_SUBTITLE"
    /\ pos' = pos + 1
    /\ LET line == strip(file[pos + 1])
       IN IF Len(line) = 0
          THEN UNCHANGED <<state, number, ppc, perr>>
          ELSE IF ~isdigit(line)
          THEN /\ ppc' = "raised"
               /\ perr' = "ValueError"
               /\ UNCHANGED <<state, number>>
          ELSE IF int(line).exc # ""
          THEN /\ ppc' = "raised"
               /\ perr' = int(line).exc
               /\ UNCHANGED <<state, number>>
          ELSE /\ number' = int(line).ret
               /\ state' = "TIMESTAMPS"
               /\ UNCHANGED <<ppc, perr>>
    /\ UNCHANGED <<file, subtitles, start, end, text, parsed>>
    /\ UNCHANGED <<callerVars, delayVars, tsVars, ghostVars, mainVars, refVars>>

ParseTimestamps ==
    /\ ppc = "loop"
    /\ pos < Len(file)
    /\ state = "TIMESTAMPS"
    /\ pos' = pos + 1
    /\ LET line == strip(file[pos + 1])
           timestamps == split(line, Arrow)
           s == from_str(strip(timestamps[1]))
           e == from_str(strip(timestamps[2]))
       IN IF Len(timestamps) # 2
          THEN /\ ppc' = "raised"
               /\ perr' = "ValueError"
               /\ UNCHANGED <<state, start, end>>
          ELSE IF s.exc # ""
          THEN /\ ppc' = "raised"
               /\ perr' = s.exc
               /\ UNCHANGED <<state, start, end>>
          ELSE IF e.exc # ""
          THEN /\ start' = s.ret
               /\ ppc' = "raised"
               /\ perr' = e.exc
               /\ UNCHANGED <<state, end>>
          ELSE /\ start' = s.ret
               /\ end' = e.ret
               /\ state' = "TEXT"
               /\ UNCHANGED <<ppc, perr>>
    /\ UNCHANGED <<file, subtitles, number, text, parsed>>
    /\ UNCHANGED <<callerVars, delayVars, tsVars, ghostVars, mainVars, refVars>>

\* As ParseText, the blank line that ends a block not moving the state on.
ParseText_stays ==
    /\ ppc = "loop"
    /\ pos < Len(file)
    /\ state = "TEXT"
    /\ pos' = pos + 1
    /\ LET line == strip(file[pos + 1])
       IN IF Len(line) = 0
          THEN IF Len(text) = 0
               THEN /\ ppc' = "raised"
                    /\ perr' = "ValueError"
                    /\ UNCHANGED <<state, subtitles, number, start, end, text>>
               ELSE /\ subtitles' =
                        Append(subtitles, Subtitle(number[1], start[1], end[1], text))
                    /\ number' = Reset.number
                    /\ start' = Reset.start
                    /\ end' = Reset.end
                    /\ text' = Reset.text
                    /\ UNCHANGED <<state, ppc, perr>>
          ELSE /\ text' = Append(text, line)
               /\ UNCHANGED <<state, subtitles, number, start, end, ppc, perr>>
    /\ UNCHANGED <<file, parsed>>
    /\ UNCHANGED <<callerVars, delayVars, tsVars, ghostVars, mainVars, refVars>>

ParseText ==
    /\ ppc = "loop"
    /\ pos < Len(file)
    /\ state = "TEXT"
    /\ pos' = pos + 1
    /\ LET line == strip(file[pos + 1])
       IN IF Len(line) = 0
          THEN IF Len(text) = 0
               THEN /\ ppc' = "raised"
                    /\ perr' = "ValueError"
                    /\ UNCHANGED <<state, subtitles, number, start, end, text>>
               ELSE IF number = None \/ start = None \/ end = None
               THEN /\ ppc' = "raised"
                    /\ perr' = "RuntimeError"
                    /\ UNCHANGED <<state, subtitles, number, start, end, text>>
               ELSE /\ subtitles' =
                        Append(subtitles, Subtitle(number[1], start[1], end[1], text))
                    /\ number' = Reset.number
                    /\ start' = Reset.start
                    /\ end' = Reset.end
                    /\ text' = Reset.text
                    /\ state' = "NEW_SUBTITLE"
                    /\ UNCHANGED <<ppc, perr>>
          ELSE /\ text' = Append(text, line)
               /\ UNCHANGED <<state, subtitles, number, start, end, ppc, perr>>
    /\ UNCHANGED <<file, parsed>>
    /\ UNCHANGED <<callerVars, delayVars, tsVars, ghostVars, mainVars, refVars>>

\* The code after the loop; the caller keeps the returned list.
ParseEnd ==
    /\ ppc = "loop"
    /\ pos = Len(file)
    /\ IF state = "TIMESTAMPS"
       THEN /\ ppc' = "raised"
            /\ perr' = "ValueError"
            /\ UNCHANGED <<subtitles, parsed, cur>>
       ELSE IF state = "TEXT"
       THEN IF Len(text) = 0
            THEN /\ ppc' = "raised"
                 /\ perr' = "ValueError"
                 /\ UNCHANGED <<subtitles, parsed, cur>>
            ELSE IF number = None \/ start = None \/ end = None
            THEN /\ ppc' = "raised"
                 /\ perr' = "RuntimeError"
                 /\ UNCHANGED <<subtitles, parsed, cur>>
            ELSE /\ subtitles' =
                     Append(subtitles, Subtitle(number[1], start[1], end[1], text))
                 /\ ppc' = "returned"
                 /\ parsed' = Some(subtitles')
                 /\ cur' = parsed'
                 /\ UNCHANGED perr
       ELSE /\ ppc' = "returned"
            /\ parsed' = Some(subtitles)
            /\ cur' = parsed'
            /\ UNCHANGED <<subtitles, perr>>
    /\ UNCHANGED <<file, pos, state, number, start, end, text, ncalls>>
    /\ UNCHANGED <<delayVars, tsVars, ghostVars, mainVars, refVars>>

(***************************************************************************)
(* delay_subtitles                                                         *)
(***************************************************************************)
\* The line printed for a removed subtitle names its number.
Notice(n) == [removed |-> n]

\* As Catches, the except clause naming ValueError.
Catches_ValueError(exc) == exc = "ValueError"

\* except NegativeTimestampException
Catches(exc) == exc = "NegativeTimestampException"

\* As NextNumber, numbering from 0.
NextNumber_from_zero(rv) == Len(rv)

\* len(rv) + 1
NextNumber(rv) == Len(rv) + 1

\* As DelayBody, the line printed naming the number the subtitle would have
\* been given in rv.
DelayBody_notice_renumbered(acc, sub, millis) ==
    LET s == delayed_by(sub.start, millis, TRUE)
        e == delayed_by(sub.end, millis, FALSE)
        raised_by == IF s.exc # "" THEN "start" ELSE IF e.exc # "" THEN "end" ELSE ""
        exc == IF s.exc # "" THEN s.exc ELSE e.exc
        entry == [number |-> sub.number, raised_by |-> raised_by,
                  caught |-> exc # "" /\ Catches(exc)]
    IN IF exc = ""
       THEN [acc EXCEPT
                !.rv = Append(@, Subtitle(NextNumber(acc.rv), s.ret[1], e.ret[1], sub.text)),
                !.log = Append(@, entry)]
       ELSE IF Catches(exc)
       THEN [acc EXCEPT !.out = Append(@, Notice(NextNumber(acc.rv))),
                        !.log = Append(@, entry)]
       ELSE [acc EXCEPT !.exc = exc, !.log = Append(@, entry)]

\* One turn of the loop.  acc holds rv, the lines printed so far (out), the
\* exception leaving the function (exc) and, per subtitle seen, which of the
\* two delayed_by calls raised and whether the except clause caught it (log).
DelayBody(acc, sub, millis) ==
    LET s == delayed_by(sub.start, millis, TRUE)
        e == delayed_by(sub.end, millis, FALSE)
        raised_by == IF s.exc # "" THEN "start" ELSE IF e.exc # "" THEN "end" ELSE ""
        exc == IF s.exc # "" THEN s.exc ELSE e.exc
        entry == [number |-> sub.number, raised_by |-> raised_by,
                  caught |-> exc # "" /\ Catches(exc)]
    IN IF exc = ""
       THEN [acc EXCEPT
                !.rv = Append(@, Subtitle(NextNumber(acc.rv), s.ret[1], e.ret[1], sub.text)),
                !.log = Append(@, entry)]
       ELSE IF Catches(exc)
       THEN [acc EXCEPT !.out = Append(@, Notice(sub.number)), !.log = Append(@, entry)]
       ELSE [acc EXCEPT !.exc = exc, !.log = Append(@, entry)]

RECURSIVE DelayLoop(_, _, _, _)
DelayLoop(acc, subs, i, millis) ==
    IF i > Len(subs) \/ acc.exc # "" THEN acc
    ELSE DelayLoop(DelayBody(acc, subs[i], millis), subs, i + 1, millis)

NoCall == [rv |-> <<>>, out |-> <<>>, exc |-> "", log |-> <<>>]

delay_subtitles(subs, millis) == DelayLoop(NoCall, subs, 1, millis)

(***************************************************************************)
(* Bounds and sample values                                                *)
(***************************************************************************)
\* blocks per input file
MaxBlocks == 2

\* delay_subtitles calls in a row
MaxDelays == 2

\* subtitles in a list handed to delay_subtitles directly
MaxSubs == 3

Offsets == {-1000, -500, 0, 500}

SampleMillis ==
    {0, 1, 999, 1000, 59999, 60000, 3599999, 3600000, 3723004,
     86399999, 86400000, 90061001, 360000000}

SampleDeltas == {-3600000, -1000, -1, 0, 1, 1000}

\* Blocks of an input file: the lines as written, what is wrong with the
\* block (bad, "" for a well-formed one) and, for a well-formed block, the
\* number, the times in milliseconds and the text lines it denotes.
BlockKinds ==
    << [lines |-> <<L_5, L_ts_0_500, L_Hello>>, bad |-> "",
        number |-> 5, start |-> 0, end |-> 500, text |-> <<L_Hello>>],
       [lines |-> <<L_9, L_ts_short, L_Hi, L_there_padded>>, bad |-> "",
        number |-> 9, start |-> 1000, end |-> 2005, text |-> <<L_Hi, L_there>>],
       [lines |-> <<L_012, L_ts_tight, L_7>>, bad |-> "",
        number |-> 12, start |-> 86399999, end |-> 5000, text |-> <<L_7>>],
       [lines |-> <<L_3, L_ts_ok>>, bad |-> "no text",
        number |-> 0, start |-> 0, end |-> 0, text |-> <<>>],
       [lines |-> <<L_1a, L_ts_ok, L_x>>, bad |-> "number",
        number |-> 0, start |-> 0, end |-> 0, text |-> <<>>],
       [lines |-> <<L_minus1, L_ts_ok, L_x>>, bad |-> "number",
        number |-> 0, start |-> 0, end |-> 0, text |-> <<>>],
       [lines |-> << <<Sup2>>, L_ts_ok, L_x>>, bad |-> "number",
        number |-> 0, start |-> 0, end |-> 0, text |-> <<>>],
       [lines |-> <<L_1, L_ts_sep1, L_x>>, bad |-> "separator",
        number |-> 0, start |-> 0, end |-> 0, text |-> <<>>],
       [lines |-> <<L_1, L_ts_sep3, L_x>>, bad |-> "separator",
        number |-> 0, start |-> 0, end |-> 0, text |-> <<>>],
       [lines |-> <<L_1, L_ts_hour, L_x>>, bad |-> "range",
        number |-> 0, start |-> 0, end |-> 0, text |-> <<>>],
       [lines |-> <<L_1, L_ts_minute, L_x>>, bad |-> "range",
        number |-> 0, start |-> 0, end |-> 0, text |-> <<>>],
       [lines |-> <<L_1, L_ts_second, L_x>>, bad |-> "range",
        number |-> 0, start |-> 0, end |-> 0, text |-> <<>>] >>

BlockSeqs == UNION {[1..n -> 1..Len(BlockKinds)] : n \in 0..MaxBlocks}

\* What follows the last block's last line.
Tails ==
    { <<>>, <<L_blank>>, <<L_ws>>, <<L_blank, L_blank>>, <<L_x>>,
      <<L_blank, L_x>>, <<L_blank, L_4>>, <<L_blank, L_4, L_ts_ok>> }

RECURSIVE BlockLines(_)
BlockLines(bs) ==
    IF bs = <<>> THEN <<>>
    ELSE IF Len(bs) = 1 THEN BlockKinds[bs[1]].lines
    ELSE BlockKinds[bs[1]].lines \o <<L_blank>> \o BlockLines(Tail(bs))

\* Every line with its terminator, and the same file without the last one.
Terminated(ls) == [i \in 1..Len(ls) |-> ls[i] \o <<"\n">>]

Chopped(f) ==
    IF f = <<>> THEN f ELSE [f EXCEPT ![Len(f)] = SubSeq(@, 1, Len(@) - 1)]

Files(bs, tl) ==
    LET f == Terminated(BlockLines(bs) \o tl) IN {f, Chopped(f)}

SampleSubtitles ==
    { Subtitle(5, Timestamp(0), Timestamp(500), <<L_Hello>>),
      Subtitle(9, Timestamp(1000), Timestamp(2000), <<L_Hi, L_there>>),
      Subtitle(12, Timestamp(4000), Timestamp(5000), <<L_x>>),
      Subtitle(9, Timestamp(500), Timestamp(1000), <<L_x>>),
      Subtitle(2, Timestamp(2000), Timestamp(1000), <<L_7>>),
      Subtitle(5, Timestamp(0), Timestamp(0), <<L_x>>) }

SubtitleLists == UNION {[1..n -> SampleSubtitles] : n \in 0..MaxSubs}

(***************************************************************************)
(* The calls a caller makes                                                *)
(***************************************************************************)
\* modified = delay_subtitles(held list, millis), the result held in turn
DelayCall(millis) ==
    /\ ppc \in {"returned", "idle"}
    /\ cur # None
    /\ ncalls < MaxDelays
    /\ LET r == delay_subtitles(cur[1], millis)
       IN /\ d_in' = cur[1]
          /\ d_millis' = millis
          /\ d_res' = r
          /\ cur' = IF r.exc = "" THEN Some(r.rv) ELSE None
    /\ ncalls' = ncalls + 1
    /\ UNCHANGED <<parserVars, tsVars, ghostVars, mainVars, refVars>>

Delay == \E millis \in Offsets : DelayCall(millis)

TsStr ==
    /\ t_op = ""
    /\ t_text' = Some(Timestamp_str(t_self))
    /\ t_op' = "str"
    /\ UNCHANGED <<t_self, t_arg, t_res, t_out>>
    /\ UNCHANGED <<parserVars, callerVars, delayVars, ghostVars, mainVars, refVars>>

TsFromStr ==
    /\ t_op = "str"
    /\ t_res' = from_str(t_text[1])
    /\ t_op' = "from_str"
    /\ UNCHANGED <<t_self, t_arg, t_text, t_out>>
    /\ UNCHANGED <<parserVars, callerVars, delayVars, ghostVars, mainVars, refVars>>

TsDelayedBy ==
    /\ t_op = ""
    /\ \E d \in SampleDeltas, c \in BOOLEAN :
          LET r == delayed_by(t_self, d, c)
          IN /\ t_arg' = [self |-> t_self, millis |-> d, clamp_to_zero |-> c]
             /\ t_res' = [exc |-> r.exc, ret |-> r.ret]
             /\ t_self' = r.self
    /\ t_op' = "delayed_by"
    /\ UNCHANGED <<t_text, t_out>>
    /\ UNCHANGED <<parserVars, callerVars, delayVars, ghostVars, mainVars, refVars>>

(***************************************************************************)
(* Subtitle.__str__, write_srt_file and the end of the command             *)
(***************************************************************************)
RECURSIVE join(_, _)
join(sep, items) ==
    IF items = <<>> THEN <<>>
    ELSE IF Len(items) = 1 THEN items[1]
    ELSE items[1] \o sep \o join(sep, Tail(items))

Subtitle_str(self) ==
    LET joined_text == join(<<"\n">>, self.text)
    IN IntStr(self.number) \o <<"\n">> \o Timestamp_str(self.start)
           \o <<" ", "-", "-", ">", " ">> \o Timestamp_str(self.end) \o <<"\n">>
           \o joined_text \o <<"\n">>

\* What the file holds when write_srt_file returns.  The records of a list
\* delay_subtitles built are distinct objects, so `sub is subtitles[-1]`
\* holds of the last one only.
RECURSIVE WriteFrom(_, _)
WriteFrom(subs, i) ==
    IF i > Len(subs) THEN <<>>
    ELSE Subtitle_str(subs[i]) \o (IF i # Len(subs) THEN <<"\n">> ELSE <<>>)
             \o WriteFrom(subs, i + 1)

write_srt_file(subs) == WriteFrom(subs, 1)

\* As WriteDelayed, the output file opened before the input is parsed.
WriteDelayed_early ==
    /\ outfile = None
    /\ outfile' = Some(IF cur = None THEN <<>> ELSE write_srt_file(cur[1]))
    /\ UNCHANGED <<parserVars, callerVars, delayVars, tsVars, ghostVars, refVars>>

\* write_srt_file("delayed_" + args.filename, modified_subtitles): reached
\* only once parse_srt_file and delay_subtitles have returned.
WriteDelayed ==
    /\ ppc = "returned"
    /\ cur # None
    /\ ncalls >= 1
    /\ outfile = None
    /\ outfile' = Some(write_srt_file(cur[1]))
    /\ UNCHANGED <<parserVars, callerVars, delayVars, tsVars, ghostVars, refVars>>

(***************************************************************************)
(* Specifications                                                          *)
(***************************************************************************)
ParserStart ==
    /\ pos = 0
    /\ state = "NEW_SUBTITLE"
    /\ subtitles = <<>>
    /\ number = None
    /\ start = None
    /\ end = None
    /\ text = <<>>
    /\ perr = ""
    /\ parsed = None

DelayIdle ==
    /\ ncalls = 0
    /\ d_in = <<>>
    /\ d_millis = 0
    /\ d_res = NoCall

TsIdle ==
    /\ t_text = None
    /\ t_arg = [self |-> Timestamp(0), millis |-> 0, clamp_to_zero |-> FALSE]
    /\ t_res = [exc |-> "", ret |-> None]
    /\ t_op = ""
    /\ t_out = None

MainIdle == outfile = None

RefIdle ==
    /\ heap = <<>>
    /\ r_in = <<>>
    /\ r_out = <<>>
    /\ r_pc = "idle"

\* The command: parse a file, then delay what was parsed.
Init ==
    /\ blocks \in BlockSeqs
    /\ tail \in Tails
    /\ file \in Files(blocks, tail)
    /\ ppc = "loop"
    /\ ParserStart
    /\ cur = None
    /\ DelayIdle
    /\ t_self = Timestamp(0)
    /\ TsIdle
    /\ MainIdle
    /\ RefIdle

Next ==
    \/ ParseNewSubtitle
    \/ ParseTimestamps
    \/ ParseText
    \/ ParseEnd
    \/ Delay
    \/ WriteDelayed

Spec == Init /\ [][Next]_vars

\* delay_subtitles on lists built directly.
InitDelay ==
    /\ blocks = <<>>
    /\ tail = <<>>
    /\ file = <<>>
    /\ ppc = "idle"
    /\ ParserStart
    /\ cur \in {Some(l) : l \in SubtitleLists}
    /\ DelayIdle
    /\ t_self = Timestamp(0)
    /\ TsIdle
    /\ MainIdle
    /\ RefIdle

NextDelay == Delay

SpecDelay == InitDelay /\ [][NextDelay]_vars

\* The methods of one Timestamp.
InitTs ==
    /\ blocks = <<>>
    /\ tail = <<>>
    /\ file = <<>>
    /\ ppc = "idle"
    /\ ParserStart
    /\ cur = None
    /\ DelayIdle
    /\ t_self \in {Timestamp(m) : m \in SampleMillis}
    /\ TsIdle
    /\ MainIdle
    /\ RefIdle

NextTs ==
    \/ TsStr
    \/ TsFromStr
    \/ TsDelayedBy

SpecTs == InitTs /\ [][NextTs]_vars

(***************************************************************************)
(* Properties                                                              *)
(***************************************************************************)
\* The loop has a line to read in one of its three states, or has come to
\* the end of the file: one of the parser's four actions can be taken.
ParseCanStep ==
    \/ pos < Len(file) /\ state \in {"NEW_SUBTITLE", "TIMESTAMPS", "TEXT"}
    \/ pos = Len(file)

WellFormedFile ==
    /\ \A i \in 1..Len(blocks) : BlockKinds[blocks[i]].bad = ""
    /\ tail \in {<<>>, <<L_blank>>, <<L_ws>>}

ExpectedRecords ==
    [i \in 1..Len(blocks) |->
        [number |-> BlockKinds[blocks[i]].number,
         start |-> [millis |-> BlockKinds[blocks[i]].start],
         end |-> [millis |-> BlockKinds[blocks[i]].end],
         text |-> BlockKinds[blocks[i]].text]]

\* C1: a file of N >= 0 well-formed blocks separated by single blank lines,
\* with or without a trailing blank line, is parsed to the end without an
\* error, and the list returned holds exactly the N records, in order, each
\* with its block's number, start and end milliseconds and all its text
\* lines in order (lines compared as the parser reads them, trimmed).
C1_ParseWellFormed ==
    WellFormedFile =>
        /\ ppc # "raised"
        /\ ppc = "loop" => ParseCanStep
        /\ ppc = "returned" => parsed = Some(ExpectedRecords)

C1_Witness ==
    /\ WellFormedFile
    /\ ppc = "returned"
    /\ Len(blocks) >= 2
    /\ blocks[1] = 2
    /\ tail = <<>>
    /\ Len(parsed[1]) = Len(blocks)
    /\ Len(parsed[1][1].text) = 2

EndStays(sub) == sub.end.millis + d_millis >= 0

Survivors == SelectSeq(d_in, EndStays)

\* C2: delay_subtitles drops a record exactly when its end plus the offset
\* is negative: the output is, in order, the input records with
\* end + offset >= 0, each with start = max(start + offset, 0),
\* end = end + offset and its text.
C2_DropsIffEndNegative ==
    ncalls > 0 =>
        /\ d_res.exc = ""
        /\ Len(d_res.rv) = Len(Survivors)
        /\ \A k \in 1..Len(Survivors) :
              /\ d_res.rv[k].start.millis = Max(Survivors[k].start.millis + d_millis, 0)
              /\ d_res.rv[k].end.millis = Survivors[k].end.millis + d_millis
              /\ d_res.rv[k].text = Survivors[k].text

C2_Witness ==
    /\ ncalls > 0
    /\ \E i \in 1..Len(d_in) : d_in[i].end.millis + d_millis < 0
    /\ \E j \in 1..Len(d_in) :
          /\ d_in[j].start.millis + d_millis < 0
          /\ d_in[j].end.millis + d_millis >= 0
    /\ Len(d_res.rv) >= 1
    /\ d_res.rv[1].start.millis = 0

\* C3: the k-th record delay_subtitles returns has number k, whatever the
\* input numbers were and whichever records were dropped before it.
C3_DenseRenumbering ==
    ncalls > 0 => \A k \in 1..Len(d_res.rv) : d_res.rv[k].number = k

C3_Witness ==
    /\ ncalls > 0
    /\ Len(d_in) = 3
    /\ d_in[1].end.millis + d_millis < 0
    /\ Len(d_res.rv) = 2
    /\ d_in[2].number >= d_in[3].number

\* C4: with an offset d >= 0 delay_subtitles drops nothing: the output is as
\* long as the input and record i has start + d, end + d and the text lines
\* of input record i.
C4_NonNegativeOffsetKeepsAll ==
    (ncalls > 0 /\ d_millis >= 0) =>
        /\ Len(d_res.rv) = Len(d_in)
        /\ \A i \in 1..Len(d_in) :
              /\ d_res.rv[i].start.millis = d_in[i].start.millis + d_millis
              /\ d_res.rv[i].end.millis = d_in[i].end.millis + d_millis
              /\ d_res.rv[i].text = d_in[i].text

C4_Witness ==
    /\ ncalls > 0
    /\ d_millis > 0
    /\ Len(d_in) >= 2
    /\ Len(d_res.rv) = Len(d_in)
    /\ Len(d_in[1].text) = 2

\* C5: parsing the text that formatting Timestamp(t) produces succeeds and
\* gives back Timestamp(t), for every t >= 0.
C5_RoundTrip ==
    t_op = "from_str" => (t_res.exc = "" /\ t_res.ret = Some(t_self))

MalformedAt(i) ==
    \/ BlockKinds[blocks[i]].bad \in {"number", "separator", "range"}
    \/ /\ BlockKinds[blocks[i]].bad = "no text"
       /\ \/ i < Len(blocks)
          \/ tail = <<>>
          \/ tail[1] \in {L_blank, L_ws}

\* C6: a file holding a block with no text line before the next blank line
\* or the end of input, a number line with a non-digit character, a
\* timestamp line that does not split in two on "-->", or a timestamp with
\* an hour, minute or second out of range is never parsed to a return: the
\* parse goes on until it raises, and no list, not even of the records
\* built before the error, reaches the caller.
C6_RejectsMalformed ==
    (\E i \in 1..Len(blocks) : MalformedAt(i)) =>
        /\ ppc \in {"loop", "raised"}
        /\ ppc = "loop" => ParseCanStep
        /\ parsed = None
        /\ cur = None

C6_Witness ==
    /\ ppc = "raised"
    /\ Len(blocks) = 2
    /\ BlockKinds[blocks[1]].bad = ""
    /\ BlockKinds[blocks[2]].bad = "range"
    /\ Len(subtitles) = 1
    /\ parsed = None

\* C7: NegativeTimestampException never leaves delay_subtitles: the call
\* returns a list; no start computation raises; every raise comes from an
\* end computation, is caught, and skips that one record only.
C7_NegativeTimestampNeverEscapes ==
    ncalls > 0 =>
        /\ d_res.exc = ""
        /\ cur = Some(d_res.rv)
        /\ Len(d_res.log) = Len(d_in)
        /\ \A i \in 1..Len(d_res.log) :
              /\ d_res.log[i].raised_by # "start"
              /\ d_res.log[i].raised_by = "end" => d_res.log[i].caught
        /\ Len(d_res.rv)
              + Cardinality({i \in 1..Len(d_res.log) : d_res.log[i].raised_by = "end"})
              = Len(d_in)

C7_Witness ==
    /\ ncalls > 0
    /\ \E i \in 1..Len(d_in) :
          /\ d_in[i].start.millis + d_millis < 0
          /\ d_res.log[i].raised_by = "end"
          /\ d_res.log[i].caught
    /\ Len(d_res.rv) >= 1

\* C8: for t.millis + d < 0 with d negative, delayed_by(d, clamp_to_zero=True)
\* returns Timestamp(0), delayed_by(d, clamp_to_zero=False) raises
\* NegativeTimestampException and returns nothing, and t is left as it was.
C8_ClampPolicy ==
    (t_op = "delayed_by" /\ t_arg.millis < 0 /\ t_arg.self.millis + t_arg.millis < 0) =>
        /\ t_arg.clamp_to_zero => (t_res.exc = "" /\ t_res.ret = Some([millis |-> 0]))
        /\ ~t_arg.clamp_to_zero =>
              (t_res.exc = "NegativeTimestampException" /\ t_res.ret = None)
        /\ t_self = t_arg.self

C8_Witness ==
    /\ t_op = "delayed_by"
    /\ t_arg.millis < 0
    /\ t_arg.self.millis > 0
    /\ t_arg.self.millis + t_arg.millis < 0
    /\ ~t_arg.clamp_to_zero
    /\ t_res.exc = "NegativeTimestampException"

\* C9: whenever t.millis + d >= 0, and so for every d >= 0, delayed_by
\* returns Timestamp(t.millis + d) without raising, for both values of
\* clamp_to_zero.
C9_ExactWhenNonNegative ==
    (t_op = "delayed_by" /\ t_arg.self.millis + t_arg.millis >= 0) =>
        /\ t_res.exc = ""
        /\ t_res.ret = Some([millis |-> t_arg.self.millis + t_arg.millis])

C9_Witness ==
    /\ t_op = "delayed_by"
    /\ t_arg.millis > 0
    /\ ~t_arg.clamp_to_zero
    /\ t_res.exc = ""
    /\ t_res.ret[1].millis > t_arg.self.millis

NonNegative(list) ==
    \A i \in 1..Len(list) : list[i].start.millis >= 0 /\ list[i].end.millis >= 0

\* C10: every Timestamp of a record parse_srt_file returns, and of a record
\* delay_subtitles returns after any sequence of calls with positive or
\* negative offsets, has millis >= 0.
C10_TimestampsNonNegative ==
    /\ NonNegative(subtitles)
    /\ parsed # None => NonNegative(parsed[1])
    /\ cur # None => NonNegative(cur[1])
    /\ NonNegative(d_res.rv)

C10_Witness ==
    /\ ncalls >= 2
    /\ cur # None
    /\ \E i \in 1..Len(d_in) :
          /\ d_in[i].start.millis > 0
          /\ d_in[i].start.millis + d_millis < 0
          /\ d_in[i].end.millis + d_millis >= 0
    /\ Len(cur[1]) >= 1

\* The text is HH:MM:SS,mmm: widths 2, 2, 2 and 3, HH in 00..23, MM and SS
\* in 00..59, mmm in 000..999.
Canonical(s) ==
    /\ Len(s) = 12
    /\ s[3] = ":"
    /\ s[6] = ":"
    /\ s[9] = ","
    /\ \A i \in {1, 2, 4, 5, 7, 8, 10, 11, 12} : s[i] \in AsciiDigit
    /\ s[1] \in {"0", "1"} \/ (s[1] = "2" /\ s[2] \in {"0", "1", "2", "3"})
    /\ s[4] \in {"0", "1", "2", "3", "4", "5"}
    /\ s[7] \in {"0", "1", "2", "3", "4", "5"}

\* C11: every Timestamp reached by parsing valid text and then delaying any
\* number of times is formatted as canonical HH:MM:SS,mmm text, which the
\* parser accepts.
C11_FormatIsCanonical ==
    cur # None =>
        \A i \in 1..Len(cur[1]) :
            /\ Canonical(Timestamp_str(cur[1][i].start))
            /\ Canonical(Timestamp_str(cur[1][i].end))
            /\ from_str(Timestamp_str(cur[1][i].start)).exc = ""
            /\ from_str(Timestamp_str(cur[1][i].end)).exc = ""

(***************************************************************************)
(* from_str then __str__ on timestamp texts                                *)
(***************************************************************************)
TwoDigits(n) == <<Digits[(n \div 10) + 1], Digits[(n % 10) + 1]>>

ThreeDigits(n) == <<Digits[(n \div 100) + 1]>> \o TwoDigits(n % 100)

PaddedText(h, m, sec, ms) ==
    TwoDigits(h) \o <<":">> \o TwoDigits(m) \o <<":">> \o TwoDigits(sec)
        \o <<",">> \o ThreeDigits(ms)

\* Fully padded texts in range, and three that are not: short fields, an
\* hour of 24, a dot for the comma.
SampleTexts ==
    {PaddedText(h, m, sec, ms) :
        h \in {0, 9, 10, 23}, m \in {0, 7, 59}, sec \in {0, 30, 59}, ms \in {0, 4, 50, 999}}
    \cup { <<"0", ":", "0", ":", "1", ",", "0">>,
           <<"2", "4", ":", "0", "0", ":", "0", "0", ",", "0", "0", "0">>,
           <<"0", "0", ":", "0", "0", ":", "0", "1", ".", "0", "0", "0">> }

TextFromStr ==
    /\ t_op = ""
    /\ t_text # None
    /\ t_res' = from_str(t_text[1])
    /\ t_op' = "text_from_str"
    /\ UNCHANGED <<t_self, t_arg, t_text, t_out>>
    /\ UNCHANGED <<parserVars, callerVars, delayVars, ghostVars, mainVars, refVars>>

TextStr ==
    /\ t_op = "text_from_str"
    /\ t_res.exc = ""
    /\ t_out' = Some(Timestamp_str(t_res.ret[1]))
    /\ t_op' = "text_str"
    /\ UNCHANGED <<t_self, t_arg, t_text, t_res>>
    /\ UNCHANGED <<parserVars, callerVars, delayVars, ghostVars, mainVars, refVars>>

InitText ==
    /\ blocks = <<>>
    /\ tail = <<>>
    /\ file = <<>>
    /\ ppc = "idle"
    /\ ParserStart
    /\ cur = None
    /\ DelayIdle
    /\ t_self = Timestamp(0)
    /\ t_text \in {Some(s) : s \in SampleTexts}
    /\ t_arg = [self |-> Timestamp(0), millis |-> 0, clamp_to_zero |-> FALSE]
    /\ t_res = [exc |-> "", ret |-> None]
    /\ t_op = ""
    /\ t_out = None
    /\ MainIdle
    /\ RefIdle

NextText ==
    \/ TextFromStr
    \/ TextStr

SpecText == InitText /\ [][NextText]_vars

\* The two digits of s at i and i + 1, read as a number.
FieldAt(s, i) == 10 * DigitVal(s[i]) + DigitVal(s[i + 1])

\* C12: for every fully padded text HH:MM:SS,mmm in range, from_str succeeds
\* with millis = mmm + 1000*SS + 60000*MM + 3600000*HH, and formatting the
\* result gives the text back character for character.
C12_TextRoundTrip ==
    (t_op \in {"text_from_str", "text_str"} /\ Canonical(t_text[1])) =>
        /\ t_res.exc = ""
        /\ t_res.ret =
              Some([millis |->
                  100 * DigitVal(t_text[1][10]) + FieldAt(t_text[1], 11)
                      + 1000 * FieldAt(t_text[1], 7)
                      + 60000 * FieldAt(t_text[1], 4)
                      + 3600000 * FieldAt(t_text[1], 1)])
        /\ t_op = "text_str" => t_out = t_text

C12_Witness ==
    /\ t_op = "text_str"
    /\ Canonical(t_text[1])
    /\ t_res.ret = Some([millis |-> 86399999])
    /\ t_out = t_text

\* C13: the output file is opened and written only after parse_srt_file has
\* returned on the whole input; in a run where parsing fails, or has not
\* finished, there is no output file.
C13_NoWriteBeforeParsed ==
    /\ outfile # None => (ppc = "returned" /\ parsed # None /\ pos = Len(file))
    /\ ppc \in {"loop", "raised"} => outfile = None

C13_Witness ==
    /\ outfile # None
    /\ ppc = "returned"
    /\ ncalls = 1
    /\ Len(cur[1]) = 2
    /\ Len(outfile[1]) > 0

(***************************************************************************)
(* parse_srt_file as a function of the whole file: the loop body as a step *)
(* on a record of the locals, the code after the loop, and their fold.     *)
(***************************************************************************)
StartLocals ==
    [state |-> "NEW_SUBTITLE", subtitles |-> <<>>, number |-> None,
     start |-> None, end |-> None, text |-> <<>>, exc |-> ""]

\* One turn of `for line in file` (exc is the exception it raises, if any).
LineStep(loc, rawline) ==
    LET line == strip(rawline)
        timestamps == split(line, Arrow)
        s == from_str(strip(timestamps[1]))
        e == from_str(strip(timestamps[2]))
    IN IF loc.state = "NEW_SUBTITLE"
       THEN IF Len(line) = 0 THEN loc
            ELSE IF ~isdigit(line) THEN [loc EXCEPT !.exc = "ValueError"]
            ELSE IF int(line).exc # "" THEN [loc EXCEPT !.exc = int(line).exc]
            ELSE [loc EXCEPT !.number = int(line).ret, !.state = "TIMESTAMPS"]
       ELSE IF loc.state = "TIMESTAMPS"
       THEN IF Len(timestamps) # 2 THEN [loc EXCEPT !.exc = "ValueError"]
            ELSE IF s.exc # "" THEN [loc EXCEPT !.exc = s.exc]
            ELSE IF e.exc # "" THEN [loc EXCEPT !.start = s.ret, !.exc = e.exc]
            ELSE [loc EXCEPT !.start = s.ret, !.end = e.ret, !.state = "TEXT"]
       ELSE IF Len(line) = 0
            THEN IF Len(loc.text) = 0 THEN [loc EXCEPT !.exc = "ValueError"]
                 ELSE IF loc.number = None \/ loc.start = None \/ loc.end = None
                 THEN [loc EXCEPT !.exc = "RuntimeError"]
                 ELSE [loc EXCEPT
                          !.subtitles =
                              Append(@, Subtitle(loc.number[1], loc.start[1],
                                                 loc.end[1], loc.text)),
                          !.number = None, !.start = None, !.end = None,
                          !.text = <<>>, !.state = "NEW_SUBTITLE"]
            ELSE [loc EXCEPT !.text = Append(@, line)]

\* As AtEnd, the record pending at the end of the file not emitted.
AtEnd_drops_pending(loc) ==
    IF loc.state = "TIMESTAMPS" THEN [exc |-> "ValueError", ret |-> None]
    ELSE [exc |-> "", ret |-> Some(loc.subtitles)]

\* The code after the loop.
AtEnd(loc) ==
    IF loc.state = "TIMESTAMPS" THEN [exc |-> "ValueError", ret |-> None]
    ELSE IF loc.state = "TEXT"
    THEN IF Len(loc.text) = 0 THEN [exc |-> "ValueError", ret |-> None]
         ELSE IF loc.number = None \/ loc.start = None \/ loc.end = None
         THEN [exc |-> "RuntimeError", ret |-> None]
         ELSE [exc |-> "",
               ret |-> Some(Append(loc.subtitles,
                                   Subtitle(loc.number[1], loc.start[1],
                                            loc.end[1], loc.text)))]
    ELSE [exc |-> "", ret |-> Some(loc.subtitles)]

RECURSIVE ParseFrom(_, _, _)
ParseFrom(loc, f, i) ==
    IF loc.exc # "" THEN [exc |-> loc.exc, ret |-> None]
    ELSE IF i > Len(f) THEN AtEnd(loc)
    ELSE ParseFrom(LineStep(loc, f[i]), f, i + 1)

parse_srt_file(f) == ParseFrom(StartLocals, f, 1)

\* Success or failure, and the records returned.
Outcome(r) == <<r.exc = "", r.ret>>

\* The locals of the call in progress, as a record.
Locals ==
    [state |-> state, subtitles |-> subtitles, number |-> number,
     start |-> start, end |-> end, text |-> text, exc |-> ""]

BlankLines == { <<"\n">>, <<>>, <<" ", "\t", "\n">> }

\* A finished call has the outcome the fold computes for its file, and that
\* outcome is the one of the same file followed by one blank line.
SameWithBlankLine ==
    (ppc \in {"returned", "raised"} /\ ncalls = 0 /\ outfile = None) =>
        /\ <<ppc = "returned", parsed>> = Outcome(parse_srt_file(file))
        /\ \A b \in BlankLines :
              Outcome(parse_srt_file(Append(file, b))) = <<ppc = "returned", parsed>>

\* What the step taken at the end of the file does, by the state it is
\* taken in.
EndOfInputRule ==
    (ppc = "loop" /\ pos = Len(file) /\ ppc' # "loop") =>
        /\ state = "TIMESTAMPS" => (ppc' = "raised" /\ parsed' = None)
        /\ state = "NEW_SUBTITLE" => (ppc' = "returned" /\ parsed' = Some(subtitles))
        /\ (state = "TEXT" /\ text = <<>>) => (ppc' = "raised" /\ parsed' = None)
        /\ (state = "TEXT" /\ text # <<>>) =>
              /\ ppc' = "returned"
              /\ parsed' = Some(Append(subtitles,
                     [number |-> number[1], start |-> start[1],
                      end |-> end[1], text |-> text]))
        /\ state = "TEXT" =>
              <<ppc' = "returned", parsed'>> = Outcome(AtEnd(LineStep(Locals, <<"\n">>)))

\* C14: at the end of input the parse fails in the awaiting-timestamps
\* state, behaves in the awaiting-text state as if one more blank line
\* followed (the pending record emitted when it has text, a failure when it
\* has none), and returns the records emitted so far in the awaiting-number
\* state; so a file and the same file followed by one blank line have the
\* same outcome, error or records.
C14_EndOfInput == []SameWithBlankLine /\ [][EndOfInputRule]_vars

C14_Witness ==
    /\ ppc = "returned"
    /\ state = "TEXT"
    /\ pos = Len(file)
    /\ Len(parsed[1]) = 2
    /\ Len(subtitles) = 2
    /\ ncalls = 0

\* The state after s on the cycle.
Following(s) ==
    CASE s = "NEW_SUBTITLE" -> "TIMESTAMPS"
      [] s = "TIMESTAMPS" -> "TEXT"
      [] OTHER -> "NEW_SUBTITLE"

\* A step of the loop: one line is read.
LineRead == ppc = "loop" /\ pos' = pos + 1

CycleRule ==
    /\ LineRead =>
          /\ state' = state \/ state' = Following(state)
          /\ (state' = state /\ ppc' = "loop") =>
                \/ state = "NEW_SUBTITLE" /\ strip(file[pos + 1]) = <<>>
                \/ state = "TEXT" /\ strip(file[pos + 1]) # <<>>
          /\ (state = "TIMESTAMPS" /\ ppc' = "loop") => state' = "TEXT"
          /\ ppc' = "raised" => state' = state
          /\ IF state = "TEXT" /\ state' = "NEW_SUBTITLE"
             THEN /\ Len(subtitles') = Len(subtitles) + 1
                  /\ SubSeq(subtitles', 1, Len(subtitles)) = subtitles
                  /\ subtitles'[Len(subtitles')].text = text
             ELSE subtitles' = subtitles
    /\ ~LineRead =>
          /\ state' = state
          /\ \/ subtitles' = subtitles
             \/ /\ ppc = "loop" /\ ppc' = "returned"
                /\ pos = Len(file)
                /\ state = "TEXT"
                /\ Len(subtitles') = Len(subtitles) + 1
                /\ SubSeq(subtitles', 1, Len(subtitles)) = subtitles

\* C15: the parser starts in NEW_SUBTITLE and on every line its state stays
\* the same (blank line in NEW_SUBTITLE, non-blank line in TEXT) or moves to
\* the next state of the cycle NEW_SUBTITLE, TIMESTAMPS, TEXT, NEW_SUBTITLE;
\* TIMESTAMPS never outlives a line unless the line raises; a record is
\* appended exactly at each step from TEXT to NEW_SUBTITLE and at most once
\* more, at the end of the input.
C15_StateCycle == [](pos = 0 => state = "NEW_SUBTITLE") /\ [][CycleRule]_vars

\* The cycle was gone round once and a second block is being read.
C15_Witness ==
    /\ ppc = "loop"
    /\ Len(subtitles) = 1
    /\ state = "TEXT"
    /\ Len(text) = 1

\* blank lines inserted at one place
MaxInserted == 2

InsertedLine == { <<"\n">>, <<" ", "\t", "\n">> }

InsertedLines ==
    UNION { [1..n -> InsertedLine] : n \in 1..MaxInserted }

\* The final line given its terminator, if it lacks one.
WithFinalNewline(f) ==
    IF f # <<>> /\ (f[Len(f)] = <<>> \/ f[Len(f)][Len(f[Len(f)])] # "\n")
    THEN [f EXCEPT ![Len(f)] = @ \o <<"\n">>]
    ELSE f

\* f with the lines ls put after its first p lines.
InsertAt(f, p, ls) ==
    IF p = Len(f) THEN WithFinalNewline(f) \o ls
    ELSE SubSeq(f, 1, p) \o ls \o SubSeq(f, p + 1, Len(f))

\* After p lines of f the parser is outside a block: at the start, at the
\* end, or next to a blank line.
OutsideBlock(f, p) ==
    \/ p = 0
    \/ p = Len(f)
    \/ strip(f[p]) = <<>>
    \/ strip(f[p + 1]) = <<>>

\* A line with whitespace put on both sides of its content.
Padded(l) ==
    IF l # <<>> /\ l[Len(l)] = "\n"
    THEN <<" ", "\t">> \o SubSeq(l, 1, Len(l) - 1) \o <<"\t", " ", "\n">>
    ELSE <<" ", "\t">> \o l \o <<"\t", " ">>

PaddedFile(f) == [i \in 1..Len(f) |-> Padded(f[i])]

\* C16: for every file that parses, the same file with blank or
\* whitespace-only lines inserted before the first block, next to a
\* separator between blocks or after the last block parses to the same
\* records; and every line is stripped before it is interpreted, so the file
\* with whitespace put around the content of every line parses to the same
\* records too.
C16_BlankLinesIgnored ==
    (ppc = "returned" /\ ncalls = 0 /\ outfile = None) =>
        /\ \A p \in 0..Len(file) : \A ls \in InsertedLines :
              OutsideBlock(file, p) =>
                  Outcome(parse_srt_file(InsertAt(file, p, ls))) = <<TRUE, parsed>>
        /\ Outcome(parse_srt_file(PaddedFile(file))) = <<TRUE, parsed>>

\* A file of two blocks was parsed, which has a place between the blocks.
C16_Witness ==
    /\ ppc = "returned"
    /\ ncalls = 0
    /\ outfile = None
    /\ Len(parsed[1]) = 2
    /\ \E p \in 1..(Len(file) - 1) : strip(file[p]) = <<>> /\ strip(file[p + 1]) # <<>>

(***************************************************************************)
(* delay_subtitles on objects.  Timestamps and text lists are objects on a *)
(* heap (a sequence; an object's identity is its index) and a Subtitle     *)
(* holds the identities of its start, end and text.  The Subtitles of the  *)
(* result are constructed by the call, so they are held by value.          *)
(***************************************************************************)
\* Timestamp(...): a new object.
NewTimestamp(h, ts) == [heap |-> Append(h, ts), ret |-> Len(h) + 1]

\* self.delayed_by(millis, clamp_to_zero), self the object id of heap h.
delayed_by_at(h, id, millis, clamp_to_zero) ==
    LET r == delayed_by(h[id], millis, clamp_to_zero)
        h1 == [h EXCEPT ![id] = r.self]
    IN IF r.exc # ""
       THEN [heap |-> h1, exc |-> r.exc, ret |-> 0]
       ELSE [heap |-> NewTimestamp(h1, r.ret[1]).heap, exc |-> "",
             ret |-> NewTimestamp(h1, r.ret[1]).ret]

\* As copy, the list itself handed back.
copy_shares(h, id) == [heap |-> h, ret |-> id]

\* list.copy(): a new list holding the same lines.
copy(h, id) == [heap |-> Append(h, h[id]), ret |-> Len(h) + 1]

\* One turn of the loop; acc holds the heap, rv and the exception leaving
\* the function.
DelayBodyAt(acc, sub, millis) ==
    LET s == delayed_by_at(acc.heap, sub.start, millis, TRUE)
        e == delayed_by_at(s.heap, sub.end, millis, FALSE)
        t == copy(e.heap, sub.text)
        exc == IF s.exc # "" THEN s.exc ELSE e.exc
    IN IF exc = ""
       THEN [acc EXCEPT
                !.heap = t.heap,
                !.rv = Append(@, Subtitle(NextNumber(acc.rv), s.ret, e.ret, t.ret))]
       ELSE IF Catches(exc)
       THEN [acc EXCEPT !.heap = IF s.exc # "" THEN s.heap ELSE e.heap]
       ELSE [acc EXCEPT !.heap = IF s.exc # "" THEN s.heap ELSE e.heap, !.exc = exc]

RECURSIVE DelayLoopAt(_, _, _, _)
DelayLoopAt(acc, subs, i, millis) ==
    IF i > Len(subs) \/ acc.exc # "" THEN acc
    ELSE DelayLoopAt(DelayBodyAt(acc, subs[i], millis), subs, i + 1, millis)

delay_subtitles_at(h, subs, millis) ==
    DelayLoopAt([heap |-> h, rv |-> <<>>, exc |-> ""], subs, 1, millis)

\* The objects of a list of subtitles, none shared: three per subtitle.
HeapOf(l) ==
    [j \in 1..(3 * Len(l)) |->
        LET i == (j + 2) \div 3
        IN CASE j % 3 = 1 -> l[i].start
             [] j % 3 = 2 -> l[i].end
             [] OTHER -> l[i].text]

RefsOf(l) ==
    [i \in 1..Len(l) |-> Subtitle(l[i].number, 3 * i - 2, 3 * i - 1, 3 * i)]

\* modified = delay_subtitles(subtitles, millis)
RefDelayCall(millis) ==
    /\ r_pc = "idle"
    /\ LET r == delay_subtitles_at(heap, r_in, millis)
       IN /\ heap' = r.heap
          /\ r_out' = IF r.exc = "" THEN Some(r.rv) ELSE None
    /\ d_millis' = millis
    /\ r_pc' = "called"
    /\ UNCHANGED <<r_in, d_in, d_res>>
    /\ UNCHANGED <<parserVars, callerVars, tsVars, ghostVars, mainVars>>

RefDelay == \E millis \in Offsets : RefDelayCall(millis)

\* The caller appends a line to the text of a record of the result.
RefAppendText ==
    /\ r_pc = "called"
    /\ r_out # None
    /\ \E k \in 1..Len(r_out[1]) :
          heap' = [heap EXCEPT ![r_out[1][k].text] = Append(@, L_x)]
    /\ r_pc' = "changed"
    /\ UNCHANGED <<r_in, r_out>>
    /\ UNCHANGED <<parserVars, callerVars, delayVars, tsVars, ghostVars, mainVars>>

\* The caller empties the text of a record of the result.
RefClearText ==
    /\ r_pc = "called"
    /\ r_out # None
    /\ \E k \in 1..Len(r_out[1]) :
          heap' = [heap EXCEPT ![r_out[1][k].text] = <<>>]
    /\ r_pc' = "changed"
    /\ UNCHANGED <<r_in, r_out>>
    /\ UNCHANGED <<parserVars, callerVars, delayVars, tsVars, ghostVars, mainVars>>

InitRef ==
    /\ blocks = <<>>
    /\ tail = <<>>
    /\ file = <<>>
    /\ ppc = "idle"
    /\ ParserStart
    /\ cur = None
    /\ DelayIdle
    /\ t_self = Timestamp(0)
    /\ TsIdle
    /\ MainIdle
    /\ \E l \in SubtitleLists : heap = HeapOf(l) /\ r_in = RefsOf(l)
    /\ r_out = None
    /\ r_pc = "idle"

NextRef == RefDelay \/ RefAppendText \/ RefClearText

SpecRef == InitRef /\ [][NextRef]_vars

\* The input record at position i with its objects' values.
Deref(h, sub) ==
    [number |-> sub.number, start |-> h[sub.start], end |-> h[sub.end],
     text |-> h[sub.text]]

\* The input list and the values of its records are kept by the step.
InputKept ==
    /\ r_in' = r_in
    /\ \A i \in 1..Len(r_in) : Deref(heap', r_in[i]) = Deref(heap, r_in[i])

StaysAt(sub) == heap[sub.end].millis + d_millis >= 0

\* After the call: no object of a record of the result is an object of an
\* input record or of another record of the result, and the text of the
\* k-th record has the lines of the k-th input record that stays.
FreshCopies ==
    (r_pc = "called" /\ r_out # None) =>
        LET out == r_out[1]
            kept == SelectSeq(r_in, StaysAt)
            Ids(sub) == {sub.start, sub.end, sub.text}
        IN /\ Len(out) = Len(kept)
           /\ \A k \in 1..Len(out) :
                 /\ heap[out[k].text] = heap[kept[k].text]
                 /\ Cardinality(Ids(out[k])) = 3
                 /\ \A i \in 1..Len(r_in) : Ids(out[k]) \cap Ids(r_in[i]) = {}
                 /\ \A j \in 1..Len(out) : j # k => Ids(out[k]) \cap Ids(out[j]) = {}

\* C17: delay_subtitles leaves the input list and every input record
\* (number, start, end, text lines) as they were, whatever the offset, and
\* gives each record of the result a new list with the same text lines, so
\* that a later change to the text of a record of the result leaves the
\* input records as they were.
C17_InputUntouched == []FreshCopies /\ [][InputKept]_vars

\* An offset that removed a record, and the text of a kept one changed
\* afterwards.
C17_Witness ==
    /\ r_pc = "changed"
    /\ r_out # None
    /\ Len(r_out[1]) >= 1
    /\ Len(r_out[1]) < Len(r_in)
    /\ \E k \in 1..Len(r_out[1]) : heap[r_out[1][k].text] = <<>>

EndGoes(sub) == sub.end.millis + d_millis < 0

Dropped == SelectSeq(d_in, EndGoes)

\* C18: delay_subtitles prints one notice for each record it drops and none
\* for a record it keeps; the notices come in input order and each names the
\* number the dropped record had in the input, so the notices and the
\* records returned are together as many as the input records.
C18_DropNotices ==
    ncalls > 0 =>
        /\ Len(d_res.out) = Len(Dropped)
        /\ \A k \in 1..Len(Dropped) : d_res.out[k] = Notice(Dropped[k].number)
        /\ Len(d_res.out) + Len(d_res.rv) = Len(d_in)

\* Two records dropped around one that is kept, the second dropped one with
\* an input number that is neither its position nor the next number of rv.
C18_Witness ==
    /\ ncalls > 0
    /\ Len(d_in) = 3
    /\ Len(d_res.out) = 2
    /\ Len(d_res.rv) = 1
    /\ EndGoes(d_in[1])
    /\ EndGoes(d_in[3])
    /\ d_in[3].number \notin {2, 3}

\* C19: a record with start <= end that delay_subtitles keeps has
\* start <= end in the result, for every offset (a start clamped to 0 is not
\* past the shifted end), in every call of a sequence of calls.
C19_StartNotAfterEnd ==
    ncalls > 0 =>
        \A k \in 1..Len(Survivors) :
            (k <= Len(d_res.rv) /\ Survivors[k].start.millis <= Survivors[k].end.millis)
                => d_res.rv[k].start.millis <= d_res.rv[k].end.millis

\* The second call of a sequence clamps the start of a record it keeps.
C19_Witness ==
    /\ ncalls = 2
    /\ Len(d_res.rv) >= 1
    /\ Len(Survivors) >= 1
    /\ Survivors[1].start.millis <= Survivors[1].end.millis
    /\ Survivors[1].start.millis + d_millis < 0
    /\ d_res.rv[1].start.millis = 0
    /\ d_res.rv[1].end.millis > 0

\* The text buffer holds the lines read since the timestamps line of the
\* block being read, and nothing older.
PendingIsCurrentBlock ==
    (state = "TEXT" /\ ppc # "raised") =>
        \E q \in 1..pos :
            /\ Len(split(strip(file[q]), Arrow)) = 2
            /\ Len(text) = pos - q
            /\ \A j \in 1..Len(text) : text[j] = strip(file[q + j])

\* C20: at every step of a parse the pending record agrees with the state:
\* in TEXT number, start and end are set; in NEW_SUBTITLE they are unset and
\* the text buffer is empty.  So neither RuntimeError("invalid state") is
\* ever raised, every record emitted has at least one text line and no empty
\* one, and the text buffer holds lines of the current block only.
C20_AccumulatorConsistent ==
    /\ state = "TEXT" => (number # None /\ start # None /\ end # None)
    /\ state = "NEW_SUBTITLE" =>
          (number = None /\ start = None /\ end = None /\ text = <<>>)
    /\ perr # "RuntimeError"
    /\ \A i \in 1..Len(subtitles) :
          /\ subtitles[i].text # <<>>
          /\ \A j \in 1..Len(subtitles[i].text) : subtitles[i].text[j] # <<>>
    /\ PendingIsCurrentBlock

\* Two records were emitted, the first with two text lines and the second
\* with one, and the parser is back in NEW_SUBTITLE.
C20_Witness ==
    /\ ppc = "returned"
    /\ state = "NEW_SUBTITLE"
    /\ Len(subtitles) = 2
    /\ Len(subtitles[1].text) = 2
    /\ Len(subtitles[2].text) = 1
    /\ text = <<>>

====
